---- MODULE Spec2Model ----
(***************************************************************************)
(* Model of Lookahead (src/Lookahead/lookahead.py): the CFR+ re-solving    *)
(* loop over a layered public tree.                                        *)
(*                                                                         *)
(* Numbers are floats of a fixed precision with the IEEE special values    *)
(* NaN and +-Inf that the numpy code relies on.                            *)
(* The tree is a chain on the last street: every non-root layer holds one  *)
(* node with the action slots fold (0), call (1) and bet (2); the bet slot *)
(* of layer d is the parent of layer d+1 and is padding (masked) in the    *)
(* deepest layer.                                                          *)
(***************************************************************************)
EXTENDS Integers, Sequences, FiniteSets, TLC

\* ---------------------------------------------------------------- bounds
MaxIters == 3        \* largest arguments.cfr_iters drawn
MaxCalls == 2        \* resolve / resolve_first_node calls per behaviour
MaxDepth == 4        \* deepest tree handed to build_lookahead
hand_count == 2      \* game_settings.hand_count
max_number == 3      \* constants.max_number, scaled to the payoffs of the model

\* ------------------------------------------------------------- constants
players_count == 2   \* constants.players_count
batch_size == 1      \* self.batch_size

Layers(L) == 0 .. L.depth - 1
Hands == 0 .. hand_count - 1
Players == 0 .. players_count - 1
Batches == 0 .. batch_size - 1
P1 == 0              \* constants.players.P1

\* ------------------------------------------------------- float arithmetic
\* A float is <<kind, v>>: kind 0 is the finite value v / Scale, kind 1 is the
\* infinity of sign v, kind 2 is NaN.  Products and quotients are rounded to
\* the nearest representable value, as floating point does.
Scale == 2 ^ 8
NaN == <<2, 0>>
Zero == <<0, 0>>
One == <<0, Scale>>
Ulp == <<0, 1>>
Abs(n) == IF n < 0 THEN -n ELSE n
Sign(n) == IF n < 0 THEN -1 ELSE IF n > 0 THEN 1 ELSE 0

\* n / d rounded to the nearest integer, d # 0
Round(n, d) == Sign(n) * Sign(d) * ((2 * Abs(n) + Abs(d)) \div (2 * Abs(d)))

Num(n) == <<0, n * Scale>>
Frac(n, d) == <<0, Round(n * Scale, d)>>
IsNaN(x) == x[1] = 2
IsInf(x) == x[1] = 1
IsFinite(x) == x[1] = 0

Add(x, y) ==
  IF IsNaN(x) \/ IsNaN(y) THEN NaN
  ELSE IF IsInf(x) /\ IsInf(y) THEN (IF x = y THEN x ELSE NaN)
  ELSE IF IsInf(x) THEN x
  ELSE IF IsInf(y) THEN y
  ELSE <<0, x[2] + y[2]>>

Neg(x) == <<x[1], -x[2]>>
Sub(x, y) == Add(x, Neg(y))

Mul(x, y) ==
  IF IsNaN(x) \/ IsNaN(y) THEN NaN
  ELSE IF IsInf(x) \/ IsInf(y)
       THEN (IF x[2] = 0 \/ y[2] = 0 THEN NaN ELSE <<1, Sign(x[2]) * Sign(y[2])>>)
  ELSE <<0, Round(x[2] * y[2], Scale)>>

Div(x, y) ==
  IF IsNaN(x) \/ IsNaN(y) THEN NaN
  ELSE IF IsInf(y) THEN (IF IsInf(x) THEN NaN ELSE Zero)
  ELSE IF IsInf(x) THEN <<1, Sign(x[2]) * (IF y[2] < 0 THEN -1 ELSE 1)>>
  ELSE IF y[2] = 0 THEN (IF x[2] = 0 THEN NaN ELSE <<1, Sign(x[2])>>)
  ELSE <<0, Round(x[2] * Scale, y[2])>>

\* x <= y on floats: false as soon as one side is NaN
Leq(x, y) ==
  IF IsNaN(x) \/ IsNaN(y) THEN FALSE
  ELSE IF IsInf(x) /\ IsInf(y) THEN x[2] <= y[2]
  ELSE IF IsInf(x) THEN x[2] < 0
  ELSE IF IsInf(y) THEN y[2] > 0
  ELSE x[2] <= y[2]

\* np.clip(x, lo, hi): NaN stays NaN
Clip(x, lo, hi) ==
  IF IsNaN(x) THEN NaN
  ELSE IF Leq(x, lo) THEN lo
  ELSE IF Leq(hi, x) THEN hi
  ELSE x

\* np.sum of f[0] .. f[n-1]
RECURSIVE SumTo(_, _)
SumTo(f, n) == IF n = 0 THEN Zero ELSE Add(SumTo(f, n - 1), f[n - 1])

\* ------------------------------------------------ optional (None) values
None == [none |-> TRUE]
Some(v) == [none |-> FALSE, v |-> v]

\* ------------------------------------------- layout set by the tree builder
\* action slots of layer d: the root has one slot, deeper layers fold, call, bet
Acts(d) == IF d = 0 THEN {0} ELSE {0, 1, 2}
actions_count(d) == IF d = 0 THEN 1 ELSE 3
\* the slot of layer d holding its inner (non-terminal) node: the slots from
\* prev_layer_terminal_actions_count on
Inner(d) == IF d = 0 THEN 0 ELSE 2
acting_player(d) == d % 2
pot_size(d) == d
\* 0 on padding: the deepest layer has no bet
empty_action_mask(L, d, a) == IF d = L.depth - 1 /\ a = 2 THEN 0 ELSE 1

ZeroTensor(d) == [a \in Acts(d) |-> [b \in Batches |-> [p \in Players |-> [h \in Hands |-> Zero]]]]
ZeroActions(d) == [a \in Acts(d) |-> [b \in Batches |-> [h \in Hands |-> Zero]]]

\* the mutable tensors as LookaheadBuilder creates them and as reset refills them
InitLayers(L) ==
  [L EXCEPT !.ranges_data = [d \in Layers(L) |-> ZeroTensor(d)],
            !.cfvs_data = [d \in Layers(L) |-> ZeroTensor(d)],
            !.average_cfvs_data = [d \in Layers(L) |-> ZeroTensor(d)],
            !.regrets_data = [d \in Layers(L) |-> ZeroActions(d)],
            !.current_strategy_data = [d \in Layers(L) |-> ZeroActions(d)],
            !.average_strategies_data = [d \in Layers(L) |-> ZeroActions(d)]]

\* ---------------------------------------------------------- collaborators
\* terminal equity stubs: payoff matrices indexed [opponent hand][own hand]
CallMatrix == [g \in Hands |-> [h \in Hands |-> Sign(h - g)]]
FoldBlocking == [g \in Hands |-> [h \in Hands |-> IF g = h THEN 0 ELSE 1]]
FoldFree == [g \in Hands |-> [h \in Hands |-> 1]]
TerminalEquities ==
  {[call_matrix |-> CallMatrix, fold_matrix |-> FoldBlocking],
   [call_matrix |-> CallMatrix, fold_matrix |-> FoldFree]}

\* one row of TerminalEquity.call_value / fold_value: range vector times matrix
MatVec(M, r) == [h \in Hands |-> SumTo([g \in Hands |-> Mul(r[g], Num(M[g][h]))], hand_count)]
call_value(te, r) == MatVec(te.call_matrix, r)
fold_value(te, r) == MatVec(te.fold_matrix, r)

\* CFRDGadget.compute_opponent_range: the opponent keeps the hands whose
\* current value is at least the value achieved before re-solving
compute_opponent_range(gadget, current_opponent_cfvs, iteration) ==
  [b \in Batches |-> [h \in Hands |->
     IF Leq(gadget.opponent_cfvs[h], current_opponent_cfvs[b][h]) THEN One ELSE Zero]]

\* ------------------------------------------------------------------ inputs
Uniform == [h \in Hands |-> Frac(1, hand_count)]
PointMass == [h \in Hands |-> IF h = 0 THEN One ELSE Zero]
PlayerRanges == {Uniform, PointMass}
OpponentRanges == {Uniform}
OpponentCfvs == {[h \in Hands |-> IF h = 0 THEN Num(-1) ELSE Num(1)]}

\* ------------------------------------------------------------------- state
VARIABLES
  lk,               \* the Lookahead instance: its attributes and layer tensors
  cfr_iters,        \* arguments.cfr_iters
  cfr_skip_iters,   \* arguments.cfr_skip_iters
  pc,               \* position of the running call: "idle", a phase of _compute, "fatal"
  iter,             \* loop variable of _compute
  log,              \* phases and collaborator calls run by the current / last resolve
  ops,              \* the API calls made so far, oldest first
  args,             \* arguments of the current / last resolve call
  nresolves,        \* number of resolve / resolve_first_node calls made
  twin              \* a freshly built Lookahead given the same resolve_first_node call

vars == <<lk, cfr_iters, cfr_skip_iters, pc, iter, log, ops, args, nresolves, twin>>

\* --------------------------------------------------------- phases of _compute
\* _set_opponent_starting_range(iteration), lines 394-402
GadgetActive(L) == ~L.reconstruction_opponent_cfvs.none

_set_opponent_starting_range(L, iteration) ==
  IF GadgetActive(L)
  THEN LET opponent_range ==
             compute_opponent_range(L.reconstruction_gadget.v,
                                    [b \in Batches |-> L.cfvs_data[0][0][b][0]], iteration)
       IN  [L EXCEPT !.ranges_data[0] =
              [a \in Acts(0) |-> [b \in Batches |-> [p \in Players |->
                 IF p = 1 THEN opponent_range[b] ELSE L.ranges_data[0][a][b][p]]]]]
  ELSE L

\* self.regret_epsilon: small against max_number, and such that the least
\* quotient regret_epsilon / (3 * max_number) of regret matching does not
\* underflow at the precision of the model, as 1e-9 / (3 * 999999) does not in
\* IEEE floats
regret_epsilon == <<0, 2 * max_number>>

\* regret matching of one layer, lines 88-95
PositiveRegretsUnmasked(L, d) ==
  [a \in Acts(d) |-> [b \in Batches |-> [h \in Hands |->
     Clip(L.regrets_data[d][a][b][h], regret_epsilon, Num(max_number))]]]

PositiveRegrets(L, d) ==
  [a \in Acts(d) |-> [b \in Batches |-> [h \in Hands |->
     Mul(Clip(L.regrets_data[d][a][b][h], regret_epsilon, Num(max_number)),
         Num(empty_action_mask(L, d, a)))]]]

RegretMatching(L, d) ==
  LET positive_regrets_data == PositiveRegrets(L, d)
      regrets_sum == [b \in Batches |-> [h \in Hands |->
                        SumTo([a \in Acts(d) |-> positive_regrets_data[a][b][h]], actions_count(d))]]
  IN  [a \in Acts(d) |-> [b \in Batches |-> [h \in Hands |->
         Div(positive_regrets_data[a][b][h], regrets_sum[b][h])]]]

_compute_current_strategies(L) ==
  [L EXCEPT !.current_strategy_data =
     [d \in Layers(L) |-> IF d = 0 THEN L.current_strategy_data[0] ELSE RegretMatching(L, d)]]

\* lines 98-128: the inner node of layer d is broadcast to every slot of layer
\* d+1 and the acting player's range is multiplied by the strategy
_compute_ranges(L) ==
  LET R[d \in Layers(L)] ==
        IF d = 0 THEN L.ranges_data[0]
        ELSE [a \in Acts(d) |-> [b \in Batches |-> [p \in Players |-> [h \in Hands |->
                IF p = acting_player(d - 1)
                THEN Mul(R[d - 1][Inner(d - 1)][b][p][h], L.current_strategy_data[d][a][b][h])
                ELSE R[d - 1][Inner(d - 1)][b][p][h]]]]]
  IN  [L EXCEPT !.ranges_data = [d \in Layers(L) |-> R[d]]]

\* lines 131-138
Accumulates(iteration) == iteration > cfr_skip_iters

AddActions(x, y, d) == [a \in Acts(d) |-> [b \in Batches |-> [h \in Hands |-> Add(x[a][b][h], y[a][b][h])]]]
AddTensor(x, y, d) ==
  [a \in Acts(d) |-> [b \in Batches |-> [p \in Players |-> [h \in Hands |-> Add(x[a][b][p][h], y[a][b][p][h])]]]]

_compute_update_average_strategies(L, iteration) ==
  IF Accumulates(iteration)
  THEN [L EXCEPT !.average_strategies_data[1] =
          AddActions(L.average_strategies_data[1], L.current_strategy_data[1], 1)]
  ELSE L

\* lines 141-168 on the last street with a terminal first call, then the pot
\* scaling of lines 254-255
TerminalCfvs(L, d) ==
  LET fold_mutliplier == IF acting_player(d) = P1 THEN -1 ELSE 1
      evaluated ==
        [a \in Acts(d) |-> [b \in Batches |-> [p \in Players |->
           IF a = 0
           THEN [h \in Hands |->
                   Mul(fold_value(L.terminal_equity, L.ranges_data[d][0][b][p])[h],
                       Num(IF p = 0 THEN fold_mutliplier ELSE -fold_mutliplier))]
           ELSE IF a = 1 THEN call_value(L.terminal_equity, L.ranges_data[d][1][b][p])
           ELSE L.cfvs_data[d][a][b][p]]]]
  IN  [a \in Acts(d) |-> [b \in Batches |-> [p \in Players |-> [h \in Hands |->
         Mul(evaluated[a][b][p][h], Num(pot_size(d)))]]]]

_compute_terminal_equities(L) ==
  [L EXCEPT !.cfvs_data =
     [d \in Layers(L) |-> IF d = 0 THEN L.cfvs_data[0] ELSE TerminalCfvs(L, d)]]

\* lines 258-281, from the deepest layer up
_compute_cfvs(L) ==
  LET C[k \in Layers(L)] ==
        LET d == L.depth - 1 - k
            lifted ==
              IF d = L.depth - 1 THEN L.cfvs_data[d]
              ELSE LET below == C[k - 1]
                       placeholder_data ==
                         [a \in Acts(d + 1) |-> [b \in Batches |-> [p \in Players |-> [h \in Hands |->
                            IF p = acting_player(d + 1)
                            THEN Mul(below[a][b][p][h], L.current_strategy_data[d + 1][a][b][h])
                            ELSE below[a][b][p][h]]]]]
                       regrets_sum ==
                         [b \in Batches |-> [p \in Players |-> [h \in Hands |->
                            SumTo([a \in Acts(d + 1) |-> placeholder_data[a][b][p][h]],
                                  actions_count(d + 1))]]]
                   IN  [a \in Acts(d) |->
                          IF a = Inner(d) THEN regrets_sum ELSE L.cfvs_data[d][a]]
        IN  IF d = 0 THEN lifted
            ELSE [a \in Acts(d) |-> [b \in Batches |-> [p \in Players |-> [h \in Hands |->
                    Mul(lifted[a][b][p][h], Num(empty_action_mask(L, d, a)))]]]]
  IN  [L EXCEPT !.cfvs_data = [d \in Layers(L) |-> C[L.depth - 1 - d]]]

\* lines 318-343
ClipRegretNoFloor(x) == Clip(x, Neg(Num(max_number)), Num(max_number))

ClipRegret(x) == Clip(x, Zero, Num(max_number))

_compute_regrets(L) ==
  [L EXCEPT !.regrets_data =
     [d \in Layers(L) |->
        IF d = 0 THEN L.regrets_data[0]
        ELSE [a \in Acts(d) |-> [b \in Batches |-> [h \in Hands |->
                LET current_regrets ==
                      Sub(L.cfvs_data[d][a][b][acting_player(d)][h],
                          L.cfvs_data[d - 1][Inner(d - 1)][b][acting_player(d)][h])
                IN  ClipRegret(Add(L.regrets_data[d][a][b][h], current_regrets))]]]]]

\* lines 284-291
_compute_cumulate_average_cfvs(L, iteration) ==
  IF Accumulates(iteration)
  THEN [L EXCEPT !.average_cfvs_data[0] = AddTensor(L.average_cfvs_data[0], L.cfvs_data[0], 0),
                 !.average_cfvs_data[1] = AddTensor(L.average_cfvs_data[1], L.cfvs_data[1], 1)]
  ELSE L

\* lines 294-307
StrategySum(avg, b, h) == SumTo([a \in Acts(1) |-> avg[a][b][h]], actions_count(1))

FoldFallbackZero(a, x) == IF IsNaN(x) THEN Zero ELSE x

FoldFallback(a, x) == IF IsNaN(x) THEN (IF a = 0 THEN One ELSE Zero) ELSE x

_compute_normalize_average_strategies(L) ==
  LET avg == L.average_strategies_data[1]
      divided == [a \in Acts(1) |-> [b \in Batches |-> [h \in Hands |->
                    Div(avg[a][b][h], StrategySum(avg, b, h))]]]
  IN  [L EXCEPT !.average_strategies_data[1] =
         [a \in Acts(1) |-> [b \in Batches |-> [h \in Hands |-> FoldFallback(a, divided[a][b][h])]]]]

\* lines 310-315
CfvDivisor == cfr_iters - cfr_skip_iters

_compute_normalize_average_cfvs(L) ==
  [L EXCEPT !.average_cfvs_data[0] =
     [a \in Acts(0) |-> [b \in Batches |-> [p \in Players |-> [h \in Hands |->
        Div(L.average_cfvs_data[0][a][b][p][h], Num(CfvDivisor))]]]]]

\* --------------------------------------------------------------- get_results
\* lines 346-391, for batch_size = 1: children_cfvs of shape (A, HC) divided by
\* a scaler of shape (A, 1, HC) broadcasts to (A, A, HC)
get_results(L) ==
  LET strategy == L.average_strategies_data[1]
      root == L.average_cfvs_data[0][0]
      scaler == [i \in Acts(1) |->
                   Mul(SumTo([h \in Hands |-> Mul(strategy[i][0][h], L.ranges_data[0][0][0][0][h])],
                             hand_count),
                       Num(CfvDivisor))]
  IN  [strategy |-> strategy,
       achieved_cfvs |-> root[0],
       root_cfvs |-> IF GadgetActive(L) THEN None
                     ELSE Some([b \in Batches |-> root[b][1]]),
       root_cfvs_both_players |->
                     IF GadgetActive(L) THEN None
                     ELSE Some([b \in Batches |-> [p \in Players |-> root[b][1 - p]]]),
       children_cfvs |-> [i \in Acts(1) |-> [j \in Acts(1) |-> [h \in Hands |->
                            Div(L.average_cfvs_data[1][j][0][0][h], scaler[i])]]]]

\* ------------------------------------------------------------------ actions
Fatal == {"AssertionError", "AttributeError", "UnboundLocalError"}
FirstPhase == "_set_opponent_starting_range"
Called(op) == ops' = <<ops[2], op>>

\* __init__, lines 16-20
Constructed(te) ==
  [built |-> FALSE, depth |-> 0, terminal_equity |-> te,
   reconstruction_opponent_cfvs |-> None, reconstruction_gadget |-> None,
   ranges_data |-> <<>>, cfvs_data |-> <<>>, average_cfvs_data |-> <<>>,
   regrets_data |-> <<>>, current_strategy_data |-> <<>>, average_strategies_data |-> <<>>]

Init ==
  /\ \E te \in TerminalEquities : lk = Constructed(te)
  /\ cfr_iters \in 1 .. MaxIters
  /\ cfr_skip_iters \in 0 .. cfr_iters - 1
  /\ pc = "idle"
  /\ iter = 0
  /\ log = <<>>
  /\ ops = <<"none", "__init__">>
  /\ args = <<None, None>>
  /\ nresolves = 0
  /\ twin = [on |-> FALSE, lk |-> lk]

\* lines 23-28; the tree fixes the depth
build_from_tree(L, tree_depth) == InitLayers([L EXCEPT !.built = TRUE, !.depth = tree_depth])

build_lookahead ==
  /\ pc = "idle"
  /\ ~lk.built
  /\ \E tree_depth \in 2 .. MaxDepth : lk' = build_from_tree(lk, tree_depth)
  /\ Called("build_lookahead")
  /\ UNCHANGED <<cfr_iters, cfr_skip_iters, pc, iter, log, args, nresolves, twin>>

\* lines 31-32
reset ==
  /\ pc = "idle"
  /\ lk.built
  /\ lk' = InitLayers(lk)
  /\ Called("reset")
  /\ UNCHANGED <<cfr_iters, cfr_skip_iters, pc, iter, log, args, nresolves, twin>>

\* self.layers (line 44) and self.tree (line 59) exist only once build_lookahead ran
UnbuiltNever(L) == FALSE

Unbuilt(L) == ~L.built

\* line 44 and line 45: the root range slot of one player, every batch entry
InjectRange(L, player, range) ==
  [L EXCEPT !.ranges_data[0] =
     [a \in Acts(0) |-> [b \in Batches |-> [p \in Players |->
        IF p = player THEN range ELSE L.ranges_data[0][a][b][p]]]]]

\* the same call on a lookahead just built from the same tree and collaborators
FreshFirstNode(L, player_range, opponent_range) ==
  InjectRange(InjectRange(build_from_tree(Constructed(L.terminal_equity), L.depth),
                          0, player_range), 1, opponent_range)

\* lines 35-46
resolve_first_node(player_range, opponent_range) ==
  /\ pc = "idle"
  /\ nresolves < MaxCalls
  /\ nresolves' = nresolves + 1
  /\ Called("resolve_first_node")
  /\ args' = <<player_range, opponent_range>>
  /\ log' = <<>>
  /\ iter' = 0
  /\ IF player_range.none \/ Unbuilt(lk)
     THEN lk' = lk /\ pc' = "AttributeError"
     ELSE IF opponent_range.none
     THEN lk' = InjectRange(lk, 0, player_range.v) /\ pc' = "AttributeError"
     ELSE /\ lk' = InjectRange(InjectRange(lk, 0, player_range.v), 1, opponent_range.v)
          /\ pc' = FirstPhase
  /\ twin' = IF pc' = FirstPhase
             THEN [on |-> TRUE, lk |-> FreshFirstNode(lk, player_range.v, opponent_range.v)]
             ELSE [on |-> FALSE, lk |-> Constructed(lk.terminal_equity)]
  /\ UNCHANGED <<cfr_iters, cfr_skip_iters>>

\* line 60: ranges_data[ : , : , : , 0, : ] selects batch entry 0 and every player
InjectPlayerRange(L, range) ==
  [L EXCEPT !.ranges_data[0] =
     [a \in Acts(0) |-> [b \in Batches |-> [p \in Players |->
        IF b = 0 THEN range ELSE L.ranges_data[0][a][b][p]]]]]

\* lines 49-62
resolve(player_range, opponent_cfvs) ==
  /\ pc = "idle"
  /\ nresolves < MaxCalls
  /\ nresolves' = nresolves + 1
  /\ Called("resolve")
  /\ args' = <<player_range, opponent_cfvs>>
  /\ log' = <<>>
  /\ iter' = 0
  /\ IF player_range.none \/ opponent_cfvs.none
     THEN lk' = lk /\ pc' = "AssertionError"
     ELSE IF Unbuilt(lk)
     THEN lk' = lk /\ pc' = "AttributeError"
     ELSE /\ lk' = [InjectPlayerRange(lk, player_range.v) EXCEPT
                      !.reconstruction_gadget =
                         Some([player_range |-> player_range.v, opponent_cfvs |-> opponent_cfvs.v]),
                      !.reconstruction_opponent_cfvs = opponent_cfvs]
          /\ pc' = FirstPhase
  /\ twin' = [on |-> FALSE, lk |-> Constructed(lk.terminal_equity)]
  /\ UNCHANGED <<cfr_iters, cfr_skip_iters>>

\* one phase of _compute, lines 65-81
Phase(name, next, entries) ==
  /\ pc = name
  /\ pc' = next
  /\ log' = log \o entries
  /\ UNCHANGED <<cfr_iters, cfr_skip_iters, ops, args, nresolves>>

set_opponent_starting_range ==
  /\ Phase("_set_opponent_starting_range", "_compute_current_strategies",
           IF GadgetActive(lk)
           THEN <<"_set_opponent_starting_range", "compute_opponent_range">>
           ELSE <<"_set_opponent_starting_range">>)
  /\ lk' = _set_opponent_starting_range(lk, iter)
  /\ twin' = IF twin.on THEN [twin EXCEPT !.lk = _set_opponent_starting_range(twin.lk, iter)] ELSE twin
  /\ UNCHANGED iter

compute_current_strategies ==
  /\ Phase("_compute_current_strategies", "_compute_ranges", <<"_compute_current_strategies">>)
  /\ lk' = _compute_current_strategies(lk)
  /\ twin' = IF twin.on THEN [twin EXCEPT !.lk = _compute_current_strategies(twin.lk)] ELSE twin
  /\ UNCHANGED iter

compute_ranges ==
  /\ Phase("_compute_ranges", "_compute_update_average_strategies", <<"_compute_ranges">>)
  /\ lk' = _compute_ranges(lk)
  /\ twin' = IF twin.on THEN [twin EXCEPT !.lk = _compute_ranges(twin.lk)] ELSE twin
  /\ UNCHANGED iter

compute_update_average_strategies ==
  /\ Phase("_compute_update_average_strategies", "_compute_terminal_equities",
           IF Accumulates(iter)
           THEN <<"_compute_update_average_strategies", "accumulate_average_strategies">>
           ELSE <<"_compute_update_average_strategies">>)
  /\ lk' = _compute_update_average_strategies(lk, iter)
  /\ twin' = IF twin.on THEN [twin EXCEPT !.lk = _compute_update_average_strategies(twin.lk, iter)] ELSE twin
  /\ UNCHANGED iter

compute_terminal_equities ==
  /\ Phase("_compute_terminal_equities", "_compute_cfvs", <<"_compute_terminal_equities">>)
  /\ lk' = _compute_terminal_equities(lk)
  /\ twin' = IF twin.on THEN [twin EXCEPT !.lk = _compute_terminal_equities(twin.lk)] ELSE twin
  /\ UNCHANGED iter

compute_cfvs ==
  /\ Phase("_compute_cfvs", "_compute_regrets", <<"_compute_cfvs">>)
  /\ lk' = _compute_cfvs(lk)
  /\ twin' = IF twin.on THEN [twin EXCEPT !.lk = _compute_cfvs(twin.lk)] ELSE twin
  /\ UNCHANGED iter

\* lines 324-332 leave ggp_layer_nonallin_bets_count unassigned when the first
\* layer visited, depth - 1, is 2; line 337 then reads it
RegretsUnbound(L) == L.depth - 1 = 2

compute_regrets ==
  /\ Phase("_compute_regrets",
           IF RegretsUnbound(lk) THEN "UnboundLocalError" ELSE "_compute_cumulate_average_cfvs",
           <<"_compute_regrets">>)
  /\ lk' = IF RegretsUnbound(lk) THEN lk ELSE _compute_regrets(lk)
  /\ twin' = IF twin.on /\ ~RegretsUnbound(lk) THEN [twin EXCEPT !.lk = _compute_regrets(twin.lk)] ELSE twin
  /\ UNCHANGED iter

\* the last phase of an iteration, then the loop test of line 69
compute_cumulate_average_cfvs ==
  /\ Phase("_compute_cumulate_average_cfvs",
           IF iter + 1 < cfr_iters THEN FirstPhase ELSE "_compute_normalize_average_strategies",
           IF Accumulates(iter)
           THEN <<"_compute_cumulate_average_cfvs", "accumulate_average_cfvs">>
           ELSE <<"_compute_cumulate_average_cfvs">>)
  /\ lk' = _compute_cumulate_average_cfvs(lk, iter)
  /\ twin' = IF twin.on THEN [twin EXCEPT !.lk = _compute_cumulate_average_cfvs(twin.lk, iter)] ELSE twin
  /\ iter' = iter + 1

compute_normalize_average_strategies ==
  /\ Phase("_compute_normalize_average_strategies", "_compute_normalize_average_cfvs",
           <<"_compute_normalize_average_strategies">>)
  /\ lk' = _compute_normalize_average_strategies(lk)
  /\ twin' = IF twin.on THEN [twin EXCEPT !.lk = _compute_normalize_average_strategies(twin.lk)] ELSE twin
  /\ UNCHANGED iter

compute_normalize_average_cfvs ==
  /\ Phase("_compute_normalize_average_cfvs", "idle", <<"_compute_normalize_average_cfvs">>)
  /\ lk' = _compute_normalize_average_cfvs(lk)
  /\ twin' = IF twin.on THEN [twin EXCEPT !.lk = _compute_normalize_average_cfvs(twin.lk)] ELSE twin
  /\ UNCHANGED iter

Optional(S) == {None} \cup {Some(v) : v \in S}

Next ==
  \/ build_lookahead
  \/ reset
  \/ \E p \in Optional(PlayerRanges), o \in Optional(OpponentRanges) : resolve_first_node(p, o)
  \/ \E p \in Optional(PlayerRanges), c \in Optional(OpponentCfvs) : resolve(p, c)
  \/ set_opponent_starting_range
  \/ compute_current_strategies
  \/ compute_ranges
  \/ compute_update_average_strategies
  \/ compute_terminal_equities
  \/ compute_cfvs
  \/ compute_regrets
  \/ compute_cumulate_average_cfvs
  \/ compute_normalize_average_strategies
  \/ compute_normalize_average_cfvs

Spec == Init /\ [][Next]_vars

\* ---------------------------------------------------------------- claims
ResolveOps == {"resolve", "resolve_first_node"}
\* the most recent call is a resolve that ran to completion
Resolved == pc = "idle" /\ ops[2] \in ResolveOps
\* the step is a call of resolve or resolve_first_node
ResolveCall == nresolves' = nresolves + 1
Count(q, x) == Cardinality({i \in DOMAIN q : q[i] = x})
RootRange(L, b, p) == L.ranges_data[0][0][b][p]

\* C1: get_results carries root_cfvs and root_cfvs_both_players if and only if
\* the most recent resolve was resolve_first_node; they are None exactly when
\* it was resolve.
C1_RootCfvsIffFirstNode ==
  Resolved =>
    /\ get_results(lk).root_cfvs.none <=> ops[2] = "resolve"
    /\ get_results(lk).root_cfvs_both_players.none <=> ops[2] = "resolve"

\* C2: the reconstruction collaborator runs once in every iteration of a
\* resolve, before regret matching, and its result becomes the layer-0 opponent
\* range; it never runs during a resolve_first_node, whose layer-0 opponent
\* range stays the supplied opponent_range.
C2_ReconstructionOnlyInResolve ==
  /\ ops[2] = "resolve" =>
       \A i \in DOMAIN log :
          log[i] = "_set_opponent_starting_range" =>
             /\ i < Len(log)
             /\ log[i + 1] = "compute_opponent_range"
             /\ i + 2 <= Len(log) => log[i + 2] = "_compute_current_strategies"
  /\ (ops[2] = "resolve" /\ pc = "_compute_current_strategies") =>
       \A b \in Batches :
          RootRange(lk, b, 1) =
            compute_opponent_range(lk.reconstruction_gadget.v,
                                   [c \in Batches |-> lk.cfvs_data[0][0][c][0]], iter)[b]
  /\ (ops[2] = "resolve_first_node" /\ pc \notin Fatal) =>
       /\ Count(log, "compute_opponent_range") = 0
       /\ \A b \in Batches : RootRange(lk, b, 1) = args[2].v

\* C3: reset() followed by resolve_first_node(p, o) gives the get_results
\* record of resolve_first_node(p, o) on a freshly built lookahead, whatever
\* was resolved before the reset.
C3_ResetLeaksNothing ==
  (pc = "idle" /\ ops = <<"reset", "resolve_first_node">>) =>
     get_results(lk) = get_results(twin.lk)

\* C4: right after _compute_regrets returns, every regret of every layer is
\* >= 0, and <= max_number in the layers d >= 1 that the update visits.
C4_RegretsClipped ==
  pc = "_compute_cumulate_average_cfvs" =>
     \A d \in Layers(lk) : \A a \in Acts(d) : \A b \in Batches : \A h \in Hands :
        /\ Leq(Zero, lk.regrets_data[d][a][b][h])
        /\ d >= 1 => Leq(lk.regrets_data[d][a][b][h], Num(max_number))

\* a regret update that the clip cut off at 0 and one that rose above 0
C4_Witness ==
  /\ pc = "_compute_cumulate_average_cfvs"
  /\ \E d \in Layers(lk) \ {0} : \E a \in Acts(d) : \E b \in Batches : \E h \in Hands :
        /\ lk.regrets_data[d][a][b][h] = Zero
        /\ ~Leq(Zero, Sub(lk.cfvs_data[d][a][b][acting_player(d)][h],
                          lk.cfvs_data[d - 1][Inner(d - 1)][b][acting_player(d)][h]))
  /\ \E d \in Layers(lk) \ {0} : \E a \in Acts(d) : \E b \in Batches : \E h \in Hands :
        ~Leq(lk.regrets_data[d][a][b][h], Zero)

\* C5: the final normalization leaves a defined layer-1 average strategy that
\* sums to 1 over the actions (up to the rounding of the division, one unit of
\* the float precision); where the accumulated sum is zero or undefined the
\* result is always-fold, and every other hand keeps its quotient.
SumsToOne(x) == IsFinite(x) /\ Abs(x[2] - Scale) <= 1

C5_AverageStrategyNormalized ==
  [][pc = "_compute_normalize_average_strategies" =>
       \A b \in Batches : \A h \in Hands :
          LET before == lk.average_strategies_data[1]
              after == lk'.average_strategies_data[1]
              total == StrategySum(before, b, h)
          IN  /\ \A a \in Acts(1) : IsFinite(after[a][b][h])
              /\ SumsToOne(StrategySum(after, b, h))
              /\ IF IsNaN(total) \/ total = Zero
                 THEN \A a \in Acts(1) : after[a][b][h] = IF a = 0 THEN One ELSE Zero
                 ELSE \A a \in Acts(1) : after[a][b][h] = Div(before[a][b][h], total)]_vars

\* a completed resolve in which no iteration passed the warm-up: always fold
C5_Witness ==
  /\ Resolved
  /\ Count(log, "accumulate_average_strategies") = 0
  /\ \A b \in Batches : \A h \in Hands : \A a \in Acts(1) :
        lk.average_strategies_data[1][a][b][h] = IF a = 0 THEN One ELSE Zero

\* C6: the injection of resolve writes player_range into the layer-0 player
\* slot of every batch entry and leaves the layer-0 opponent slot alone.
C6_ResolveInjectsOnlyPlayerRange ==
  [][(ResolveCall /\ ops'[2] = "resolve" /\ pc' = FirstPhase) =>
       \A b \in Batches :
          /\ RootRange(lk', b, 0) = args'[1].v
          /\ RootRange(lk', b, 1) = RootRange(lk, b, 1)]_vars

\* C7: resolve or resolve_first_node before build_lookahead ends in a fatal
\* error, and no phase of _compute and no collaborator runs.
C7_ResolveBeforeBuildIsFatal ==
  /\ [](~lk.built => (log = <<>> /\ pc \in {"idle"} \cup Fatal))
  /\ [][(ResolveCall /\ ~lk.built) => (pc' \in Fatal /\ log' = <<>> /\ lk' = lk)]_vars

\* a resolve with both arguments present, called before build_lookahead
C7_Witness ==
  /\ ~lk.built
  /\ pc = "AttributeError"
  /\ ops[2] \in ResolveOps
  /\ ~args[1].none /\ ~args[2].none

\* C8: a resolve or resolve_first_node call with a missing argument aborts at
\* once, before any lookahead state is modified and before any iteration.
C8_MissingArgumentChangesNothing ==
  [][(ResolveCall /\ (args'[1].none \/ args'[2].none)) =>
       (pc' \in Fatal /\ log' = <<>> /\ lk' = lk)]_vars

\* C9: every resolve on a built lookahead runs exactly cfr_iters iterations,
\* each with its eight phases in order, then the two normalizations, and ends.
PhaseOrder ==
  <<"_set_opponent_starting_range", "_compute_current_strategies", "_compute_ranges",
    "_compute_update_average_strategies", "_compute_terminal_equities", "_compute_cfvs",
    "_compute_regrets", "_compute_cumulate_average_cfvs">>
Normalizations == <<"_compute_normalize_average_strategies", "_compute_normalize_average_cfvs">>
IsPhase(x) == (\E i \in DOMAIN PhaseOrder : PhaseOrder[i] = x)
                \/ (\E i \in DOMAIN Normalizations : Normalizations[i] = x)
PhasesRun == SelectSeq(log, IsPhase)
ExpectedPhases ==
  [i \in 1 .. 8 * cfr_iters + 2 |->
     IF i <= 8 * cfr_iters THEN PhaseOrder[((i - 1) % 8) + 1] ELSE Normalizations[i - 8 * cfr_iters]]

C9_ComputeRunsEveryPhaseInOrder ==
  (ops[2] \in ResolveOps /\ lk.built /\ ~args[1].none /\ ~args[2].none) =>
     /\ pc \notin Fatal
     /\ Len(PhasesRun) <= Len(ExpectedPhases)
     /\ \A i \in DOMAIN PhasesRun : PhasesRun[i] = ExpectedPhases[i]
     /\ pc = "idle" => PhasesRun = ExpectedPhases

\* C10: accumulation is skipped in exactly cfr_skip_iters iterations, so the
\* number of accumulated iterations is the divisor cfr_iters - cfr_skip_iters.
C10_AccumulatedIterationsEqualDivisor ==
  Resolved =>
     /\ Count(log, "accumulate_average_strategies") = CfvDivisor
     /\ Count(log, "accumulate_average_cfvs") = CfvDivisor
     /\ cfr_iters - Count(log, "accumulate_average_cfvs") = cfr_skip_iters

\* C11: after _compute_current_strategies, in every non-root layer and every
\* (batch, hand) state with at least one valid action, the current strategy is
\* 0 on every masked action, strictly positive on every valid action and sums
\* to 1 over the actions (up to the rounding of the division); all-zero regrets
\* give the uniform strategy over the valid actions.
ValidActions(L, d) == {a \in Acts(d) : empty_action_mask(L, d, a) = 1}

C11_CurrentStrategyIsDistribution ==
  pc = "_compute_ranges" =>
     \A d \in Layers(lk) \ {0} : \A b \in Batches : \A h \in Hands :
        LET valid == ValidActions(lk, d)
            strategy == [a \in Acts(d) |-> lk.current_strategy_data[d][a][b][h]]
        IN  valid # {} =>
              /\ \A a \in Acts(d) \ valid : strategy[a] = Zero
              /\ \A a \in valid : IsFinite(strategy[a]) /\ strategy[a][2] > 0
              /\ SumsToOne(SumTo(strategy, actions_count(d)))
              /\ (\A a \in Acts(d) : lk.regrets_data[d][a][b][h] = Zero) =>
                    \A a \in valid : strategy[a] = Frac(1, Cardinality(valid))

\* a later iteration: a masked slot, and a valid action whose regret was clipped
\* to 0 playing next to one with positive regret
C11_Witness ==
  /\ pc = "_compute_ranges"
  /\ iter >= 1
  /\ \E d \in Layers(lk) \ {0} : \E b \in Batches : \E h \in Hands :
        /\ ValidActions(lk, d) # Acts(d)
        /\ \E a \in ValidActions(lk, d) :
              /\ lk.regrets_data[d][a][b][h] = Zero
              /\ lk.current_strategy_data[d][a][b][h][2] > 0
        /\ \E a \in ValidActions(lk, d) : lk.regrets_data[d][a][b][h][2] > 0

====
